---- MODULE Spec2Model ----
(***************************************************************************)
(* Model of torch_datasets.py: the two dataset adapters EdfDataset (label  *)
(* images on disk) and CrowdDataset (COCO annotations).                    *)
(*                                                                         *)
(* An object is constructed (Init), then one of __getitem__, __len__ and   *)
(* check is called on it: no method writes to the object, so a behaviour   *)
(* follows one call from construction to its return.  The result of the    *)
(* call is `ret`, what was printed is `out`.  `transforms` is None         *)
(* throughout: the augmentation pipeline is not part of the adapters.      *)
(*                                                                         *)
(* Arrays are 0-based as in numpy: a grid is a function Rows -> Cols -> v. *)
(* numpy bool pixels are written 0/1 (Python's False == 0, True == 1).     *)
(* Strings are sequences of character codes, so that sorted() and slicing  *)
(* are computed as Python computes them.                                   *)
(***************************************************************************)
EXTENDS Integers, Sequences, FiniteSets, TLC

VARIABLES kind, img_paths, mask_paths, disk, img_ids, coco, pc, ret, out

vars == <<kind, img_paths, mask_paths, disk, img_ids, coco, pc, ret, out>>

----------------------------------------------------------------------------
(* Bounds of the model *)

\* height and width of every image, label image and mask
H == 2
W == 2
\* most annotation records of one image
MaxAnns == 2
\* indices passed to __getitem__ range over -1 .. MaxIdx
MaxIdx == 2

(* Program constants: the slice [-9:-4] of check() *)
TailFrom == 9
TailTo == 4

Rows == 0 .. (H - 1)
Cols == 0 .. (W - 1)

Min(a, b) == IF a < b THEN a ELSE b
Max(a, b) == IF a > b THEN a ELSE b

SetMin(S) == CHOOSE x \in S : \A y \in S : x <= y
SetMax(S) == CHOOSE x \in S : \A y \in S : x >= y

----------------------------------------------------------------------------
(* Python strings and lists *)

\* s < t for two strings, by code point, as Python's str.__lt__
RECURSIVE StrLess(_, _)
StrLess(s, t) ==
    IF t = <<>> THEN FALSE
    ELSE IF s = <<>> THEN TRUE
    ELSE IF Head(s) # Head(t) THEN Head(s) < Head(t)
    ELSE StrLess(Tail(s), Tail(t))

\* sorted(S) of a set of distinct strings
RECURSIVE sorted(_)
sorted(S) ==
    IF S = {} THEN <<>>
    ELSE LET m == CHOOSE x \in S : \A y \in S \ {x} : StrLess(x, y)
         IN  <<m>> \o sorted(S \ {m})

\* sorted(S) of a set of integers
RECURSIVE sortedInts(_)
sortedInts(S) ==
    IF S = {} THEN <<>>
    ELSE LET m == SetMin(S) IN <<m>> \o sortedInts(S \ {m})

\* os.path.join(a, b) for a relative b, on a POSIX system ("/" is 47)
join(a, b) == a \o <<47>> \o b

\* s[lo:hi] with lo, hi < 0: both ends count from the end and are clamped at 0
PySliceNeg(s, lo, hi) ==
    LET start == Max(Len(s) - lo, 0)
        stop  == Max(Len(s) - hi, 0)
    IN  IF stop <= start THEN <<>> ELSE SubSeq(s, start + 1, stop)

\* is seq[idx] defined (otherwise IndexError)
InRange(seq, idx) == (0 - Len(seq)) <= idx /\ idx < Len(seq)

\* seq[idx], negative indices counting from the end
PyIndex(seq, idx) == IF idx >= 0 THEN seq[idx + 1] ELSE seq[Len(seq) + idx + 1]

----------------------------------------------------------------------------
(* numpy / torch helpers *)

Grids(V) == [Rows -> [Cols -> V]]

\* np.dstack(masks): N arrays of shape (H, W) become one array of shape
\* (H, W, N); with no array to stack numpy raises ValueError
dstackFails(masks) == Len(masks) = 0

\* dstack with the two image axes exchanged
dstackSwapped(masks) ==
    [r \in Rows |-> [c \in Cols |->
        [i \in 1 .. Len(masks) |-> masks[i][c % H][r % W]]]]

dstack(masks) ==
    [r \in Rows |-> [c \in Cols |-> [i \in 1 .. Len(masks) |-> masks[i][r][c]]]]

\* torch.as_tensor(x, dtype=torch.float32) of an integer: exact up to 2^24,
\* above that rounded to the 24-bit significand (ties to even)
RECURSIVE Ulp(_, _)
Ulp(n, u) == IF n < 16777216 * u THEN u ELSE Ulp(n, 2 * u)

float32(n) ==
    LET a == IF n < 0 THEN 0 - n ELSE n
        u == Ulp(a, 1)
        q == a \div u
        rem == a % u
        up == (2 * rem > u) \/ (2 * rem = u /\ q % 2 = 1)
        v == (IF up THEN q + 1 ELSE q) * u
    IN  IF n < 0 THEN 0 - v ELSE v

\* t[keep]: the rows of t at which the boolean mask keep is true
RECURSIVE BoolIndex(_, _)
BoolIndex(t, keep) ==
    IF t = <<>> THEN <<>>
    ELSE (IF Head(keep) THEN <<Head(t)>> ELSE <<>>) \o BoolIndex(Tail(t), Tail(keep))

----------------------------------------------------------------------------
(* my_utils: the label-image decomposer and the bounding-box extractor *)

\* load_image_as_np_array(path): the label image stored in the file
load_image_as_np_array(path) == disk[path]

\* the distinct values of a label image, background included
ClusterValuesAll(lab) == {lab[r][c] : r \in Rows, c \in Cols}

\* the distinct nonzero values of a label image
ClusterValues(lab) == {lab[r][c] : r \in Rows, c \in Cols} \ {0}

\* extract_masks_from_cluster(mask, bool_array=True, ch_first=True): one
\* boolean mask per distinct nonzero value, in ascending value order
extract_masks_from_cluster(lab) ==
    LET vals == sortedInts(ClusterValues(lab))
    IN  [i \in 1 .. Len(vals) |->
            [r \in Rows |-> [c \in Cols |-> IF lab[r][c] = vals[i] THEN 1 ELSE 0]]]

\* number of instances of an array of shape (H, W, N)
NumInstances(a) == Len(a[0][0])

\* columns / rows where instance i of the (H, W, N) array a is true
TrueCols(a, i) == {c \in Cols : \E r \in Rows : a[r][c][i] # 0}
TrueRows(a, i) == {r \in Rows : \E c \in Cols : a[r][c][i] # 0}

\* what the extractor may do with a mask that has no true pixel: emit the
\* zero-area box (0,0,0,0), or fail
EmptyMaskPolicies == {"sentinel", "raise"}

\* does the extractor fail on a under the policy
extractFails(a, policy) ==
    policy = "raise" /\ \E i \in 1 .. NumInstances(a) : TrueCols(a, i) = {}

\* extract_bboxes_from_mask(a): one box (x0, y0, x1, y1) per instance of the
\* (H, W, N) array, upper bounds exclusive
extract_bboxes_from_mask(a) ==
    [i \in 1 .. NumInstances(a) |->
        IF TrueCols(a, i) = {} THEN <<0, 0, 0, 0>>
        ELSE <<SetMin(TrueCols(a, i)), SetMin(TrueRows(a, i)),
               SetMax(TrueCols(a, i)) + 1, SetMax(TrueRows(a, i)) + 1>>]

----------------------------------------------------------------------------
(* EdfDataset *)

\* a failed call: the exception raised
Raised(idx, e) == [op |-> "getitem", idx |-> idx, err |-> e]

\* torch.as_tensor(bboxes, dtype=torch.float32)
boxesTensor(bboxes) ==
    [i \in 1 .. Len(bboxes) |-> [j \in 1 .. 4 |-> float32(bboxes[i][j])]]

\* torch.as_tensor(masks, dtype=torch.uint8): 0 stays 0, True becomes 1
masksTensor(masks) ==
    [i \in 1 .. Len(masks) |->
        [r \in Rows |-> [c \in Cols |-> IF masks[i][r][c] # 0 THEN 1 ELSE 0]]]

\* torch.ones((n,)) and torch.zeros((n,))
ones(n) == [i \in 1 .. n |-> 1]
zeros(n) == [i \in 1 .. n |-> 0]

\* the area with the height taken for the width as well
boxAreaSquare(boxes) ==
    [i \in 1 .. Len(boxes) |->
        float32(float32(boxes[i][4] - boxes[i][2]) * float32(boxes[i][4] - boxes[i][2]))]

\* (boxes[:, 3] - boxes[:, 1]) * (boxes[:, 2] - boxes[:, 0]), in float32
boxArea(boxes) ==
    [i \in 1 .. Len(boxes) |->
        float32(float32(boxes[i][4] - boxes[i][2]) * float32(boxes[i][3] - boxes[i][1]))]

\* EdfDataset.__getitem__(idx), transforms being None
EdfSample(idx, policy) ==
    IF ~InRange(img_paths, idx) \/ ~InRange(mask_paths, idx)
    THEN Raised(idx, "IndexError")
    ELSE
    LET img == PyIndex(img_paths, idx)
        mask == load_image_as_np_array(PyIndex(mask_paths, idx))
        mask_ch_first == extract_masks_from_cluster(mask)
    IN  IF dstackFails(mask_ch_first) THEN Raised(idx, "ValueError")
        ELSE IF extractFails(dstack(mask_ch_first), policy)
        THEN Raised(idx, "EmptyMaskError")
        ELSE
        LET bboxes == extract_bboxes_from_mask(dstack(mask_ch_first))
            num_instaces == Len(mask_ch_first)
            boxes == boxesTensor(bboxes)
        IN  [op |-> "getitem", idx |-> idx, err |-> "none",
             img |-> img,
             boxes |-> boxes,
             labels |-> ones(num_instaces),
             masks |-> masksTensor(mask_ch_first),
             image_id |-> <<idx>>,
             area |-> boxArea(boxes),
             iscrowd |-> zeros(num_instaces)]

EdfGetItem(idx) ==
    /\ kind = "edf"
    /\ pc = "constructed"
    /\ pc' = "returned"
    /\ \E policy \in EmptyMaskPolicies : ret' = EdfSample(idx, policy)
    /\ UNCHANGED <<kind, img_paths, mask_paths, disk, img_ids, coco, out>>

\* EdfDataset.__len__
EdfLen ==
    /\ kind = "edf"
    /\ pc = "constructed"
    /\ pc' = "returned"
    /\ ret' = [op |-> "len", value |-> Len(img_paths)]
    /\ UNCHANGED <<kind, img_paths, mask_paths, disk, img_ids, coco, out>>

\* the line check() prints
Warning == "Image and label do not match."

\* the loop of check() from the k-th zipped pair on: TRUE when it prints
RECURSIVE checkLoop(_)
checkLoop(k) ==
    IF k > Min(Len(img_paths), Len(mask_paths)) THEN FALSE
    ELSE IF PySliceNeg(img_paths[k], TailFrom, TailTo)
              # PySliceNeg(mask_paths[k], TailFrom, TailTo)
    THEN TRUE
    ELSE checkLoop(k + 1)

\* EdfDataset.check
EdfCheck ==
    /\ kind = "edf"
    /\ pc = "constructed"
    /\ pc' = "returned"
    /\ out' = IF checkLoop(1) THEN Append(out, Warning) ELSE out
    /\ ret' = [op |-> "check"]
    /\ UNCHANGED <<kind, img_paths, mask_paths, disk, img_ids, coco>>

----------------------------------------------------------------------------
(* CrowdDataset *)

\* the annotation list without the crowd filter
notCrowdAll(anno) == anno

\* anno = [obj for obj in anno if obj['iscrowd'] == 0]
RECURSIVE notCrowd(_)
notCrowd(anno) ==
    IF anno = <<>> THEN <<>>
    ELSE (IF Head(anno).iscrowd = 0 THEN <<Head(anno)>> ELSE <<>>) \o notCrowd(Tail(anno))

\* coco.annToMask(obj): the uint8 mask of the annotation's segmentation, a
\* rectangle (x, y, w, h) of pixels
annToMask(obj) ==
    LET seg == obj.segmentation
    IN  [r \in Rows |-> [c \in Cols |->
            IF /\ seg[1] <= c /\ c < seg[1] + seg[3]
               /\ seg[2] <= r /\ r < seg[2] + seg[4]
            THEN 1 ELSE 0]]

\* keep with >= for >
keepMaskGe(boxes) ==
    [i \in 1 .. Len(boxes) |-> boxes[i][4] >= boxes[i][2] /\ boxes[i][3] >= boxes[i][1]]

\* keep = (boxes[:, 3] > boxes[:, 1]) & (boxes[:, 2] > boxes[:, 0])
keepMask(boxes) ==
    [i \in 1 .. Len(boxes) |-> boxes[i][4] > boxes[i][2] /\ boxes[i][3] > boxes[i][1]]

\* torch.tensor([obj["area"] for obj in anno]), and likewise iscrowd
areaOf(anno) == [i \in 1 .. Len(anno) |-> anno[i].area]
iscrowdOf(anno) == [i \in 1 .. Len(anno) |-> anno[i].iscrowd]

\* CrowdDataset.__getitem__(idx), transforms being None
CrowdSample(idx, policy) ==
    IF ~InRange(img_ids, idx) THEN Raised(idx, "IndexError")
    ELSE
    LET image_id == PyIndex(img_ids, idx)
        anno == notCrowd(coco[image_id])
        classes == ones(Len(anno))
        masks_np == [i \in 1 .. Len(anno) |-> annToMask(anno[i])]
        masks == masksTensor(masks_np)
    IN  IF dstackFails(masks_np) THEN Raised(idx, "ValueError")
        ELSE IF extractFails(dstack(masks_np), policy)
        THEN Raised(idx, "EmptyMaskError")
        ELSE
        LET boxes == boxesTensor(extract_bboxes_from_mask(dstack(masks_np)))
            keep == keepMask(boxes)
        IN  [op |-> "getitem", idx |-> idx, err |-> "none",
             img |-> image_id,
             boxes |-> BoolIndex(boxes, keep),
             labels |-> BoolIndex(classes, keep),
             masks |-> BoolIndex(masks, keep),
             image_id |-> <<image_id>>,
             area |-> areaOf(anno),
             iscrowd |-> iscrowdOf(anno)]

CrowdGetItem(idx) ==
    /\ kind = "crowd"
    /\ pc = "constructed"
    /\ pc' = "returned"
    /\ \E policy \in EmptyMaskPolicies : ret' = CrowdSample(idx, policy)
    /\ UNCHANGED <<kind, img_paths, mask_paths, disk, img_ids, coco, out>>

\* CrowdDataset.__len__
CrowdLen ==
    /\ kind = "crowd"
    /\ pc = "constructed"
    /\ pc' = "returned"
    /\ ret' = [op |-> "len", value |-> Len(img_ids)]
    /\ UNCHANGED <<kind, img_paths, mask_paths, disk, img_ids, coco, out>>

----------------------------------------------------------------------------
(* The datasets the objects are constructed on *)

\* ".png"
Ext == <<46, 112, 110, 103>>

\* file names a directory may hold:
\* "00001.png", "00002.png", "1.png", "a00001.png"
FileNames ==
    { <<48, 48, 48, 48, 49>> \o Ext, <<48, 48, 48, 48, 50>> \o Ext,
      <<49>> \o Ext, <<97, 48, 48, 48, 48, 49>> \o Ext }

\* dataset_dir "d", and its subdirectories "d/image" and "d/label"
dataset_dir == <<100>>
img_dir == join(dataset_dir, <<105, 109, 97, 103, 101>>)
label_dir == join(dataset_dir, <<108, 97, 98, 101, 108>>)

\* [os.path.join(dir, f) for f in sorted(os.listdir(dir))]
listing(dir, names) ==
    LET s == sorted(names) IN [i \in 1 .. Len(s) |-> join(dir, s[i])]

\* values a pixel of a label image takes: background and two clusters
LabelValues == {0, 1, 3}
LabelImages == Grids(LabelValues)

\* a label image with one cluster, the single pixel number k (row-major)
PixelLabel(k) ==
    [r \in Rows |-> [c \in Cols |-> IF r * W + c = k % (H * W) THEN 1 ELSE 0]]

\* the rank of a file name among FileNames
Rank(n) == Cardinality({m \in FileNames : StrLess(m, n)})

\* no object of the other class
NoEdf == img_paths = <<>> /\ mask_paths = <<>> /\ disk = <<>>
NoCrowd == img_ids = <<>> /\ coco = <<>>
NoRet == [op |-> "none"]

\* EdfDataset.__init__ on any two directory listings; each label file holds
\* one single-pixel cluster that tells the files apart
InitEdfListings ==
    /\ kind = "edf"
    /\ \E imgs \in SUBSET FileNames, labels \in SUBSET FileNames :
         /\ img_paths = listing(img_dir, imgs)
         /\ mask_paths = listing(label_dir, labels)
         /\ disk = [p \in {join(label_dir, n) : n \in labels} |->
                       PixelLabel(Rank(SubSeq(p, Len(label_dir) + 2, Len(p))))]
    /\ NoCrowd

\* EdfDataset.__init__ on one image with any label image
InitEdfPixels ==
    /\ kind = "edf"
    /\ \E n \in FileNames :
         /\ Rank(n) = 0
         /\ img_paths = listing(img_dir, {n})
         /\ mask_paths = listing(label_dir, {n})
         /\ \E lab \in LabelImages : disk = [p \in {join(label_dir, n)} |-> lab]
    /\ NoCrowd

\* image identifiers of an annotation file
ImgIdPool == {3, 7}
\* 'area' values of annotation records
AreaValues == {5, 9}
\* segmentations: no pixel, the first pixel, the last pixel, the first row,
\* the first column
Segmentations ==
    { <<0, 0, 0, 0>>, <<0, 0, 1, 1>>, <<W - 1, H - 1, 1, 1>>,
      <<0, 0, W, 1>>, <<0, 0, 1, H>> }
AnnRecords == [iscrowd : {0, 1}, area : AreaValues, segmentation : Segmentations]
AnnLists == UNION {[1 .. n -> AnnRecords] : n \in 0 .. MaxAnns}

\* CrowdDataset.__init__ on an annotation file in which at most one image
\* has annotation records
InitCrowd ==
    /\ kind = "crowd"
    /\ \E ids \in SUBSET ImgIdPool :
         /\ img_ids = sortedInts(ids)
         /\ \E a \in ImgIdPool, anns \in AnnLists :
              coco = [i \in ids |-> IF i = a THEN anns ELSE <<>>]
    /\ NoEdf

Init ==
    /\ \/ InitEdfListings
       \/ InitEdfPixels
       \/ InitCrowd
    /\ pc = "constructed"
    /\ ret = NoRet
    /\ out = <<>>

IdxRange == (0 - 1) .. MaxIdx

Next ==
    \/ \E idx \in IdxRange : EdfGetItem(idx)
    \/ EdfLen
    \/ EdfCheck
    \/ \E idx \in IdxRange : CrowdGetItem(idx)
    \/ CrowdLen

Spec == Init /\ [][Next]_vars

----------------------------------------------------------------------------
(* Vocabulary of the properties *)

\* a call of __getitem__ has returned a sample
GotSample == pc = "returned" /\ ret.op = "getitem" /\ ret.err = "none"
EdfSampleReturned == kind = "edf" /\ GotSample
CrowdSampleReturned == kind = "crowd" /\ GotSample

\* a call of __getitem__ has ended, with a sample or an exception
GetItemEnded == pc = "returned" /\ ret.op = "getitem"

\* the annotation records of the image the call was about, as stored
RecordsOf(idx) == coco[PyIndex(img_ids, idx)]

\* the label image the call was about, as stored
LabelOfCall(idx) == disk[PyIndex(mask_paths, idx)]

\* a mask with at least one true pixel
HasPixel(m) == \E r \in Rows, c \in Cols : m[r][c] # 0

\* the records that are not crowd-flagged
NonCrowdRecords(anno) == SelectSeq(anno, LAMBDA o : o.iscrowd # 1)

\* the records that are not crowd-flagged and whose mask is not empty
ValidRecords(anno) ==
    SelectSeq(anno, LAMBDA o : o.iscrowd # 1 /\ HasPixel(annToMask(o)))

\* the five per-instance arrays of a sample
ArrayLengths(t) ==
    {Len(t.boxes), Len(t.labels), Len(t.masks), Len(t.area), Len(t.iscrowd)}

----------------------------------------------------------------------------
(* C1: every sample returned by get(index) of either adapter has boxes,    *)
(* labels, masks, area and iscrowd arrays of one and the same length N.    *)
(* CrowdDataset filters boxes, labels and masks by `keep` but builds area  *)
(* and iscrowd from the unfiltered records, so this fails.                 *)
C1_SameLength == GotSample => Cardinality(ArrayLengths(ret)) = 1

(* C2: in a CrowdDataset sample, area[i] and iscrowd[i] at every emitted   *)
(* position i are the fields of the annotation record from which boxes[i]  *)
(* and masks[i] were derived.  A degenerate record ahead of a valid one    *)
(* shifts the positions, so this fails.                                    *)
C2_AreaOfSameRecord ==
    CrowdSampleReturned =>
        LET valid == ValidRecords(RecordsOf(ret.idx))
        IN  \A i \in 1 .. Len(ret.boxes) :
              /\ ret.masks[i] = annToMask(valid[i])
              /\ ret.area[i] = valid[i].area
              /\ ret.iscrowd[i] = valid[i].iscrowd

(* C3: every box of a CrowdDataset sample has x1 > x0 and y1 > y0, and the *)
(* masks and labels are those of the instances whose boxes survived, in    *)
(* the order of the records.                                               *)
C3_ValidBoxes ==
    CrowdSampleReturned =>
        LET valid == ValidRecords(RecordsOf(ret.idx))
        IN  /\ \A i \in 1 .. Len(ret.boxes) :
                 ret.boxes[i][3] > ret.boxes[i][1] /\ ret.boxes[i][4] > ret.boxes[i][2]
            /\ Len(ret.boxes) = Len(valid)
            /\ ret.masks = [i \in 1 .. Len(valid) |-> annToMask(valid[i])]
            /\ ret.labels = [i \in 1 .. Len(valid) |-> 1]

\* a sample from which a degenerate instance was dropped and a valid one kept
C3_Witness ==
    /\ CrowdSampleReturned
    /\ Len(ret.boxes) >= 1
    /\ Len(ret.boxes) < Len(NonCrowdRecords(RecordsOf(ret.idx)))

(* C4: a record with iscrowd = 1 contributes to no per-instance array of a *)
(* CrowdDataset sample: every emitted iscrowd value is 0, area and iscrowd *)
(* have one entry per record that is not crowd-flagged, and every emitted  *)
(* mask is the mask of such a record.                                      *)
C4_NoCrowdInstance ==
    CrowdSampleReturned =>
        LET rest == NonCrowdRecords(RecordsOf(ret.idx))
        IN  /\ \A i \in 1 .. Len(ret.iscrowd) : ret.iscrowd[i] = 0
            /\ ret.iscrowd = [i \in 1 .. Len(rest) |-> rest[i].iscrowd]
            /\ ret.area = [i \in 1 .. Len(rest) |-> rest[i].area]
            /\ \A n \in ArrayLengths(ret) : n <= Len(rest)
            /\ \A i \in 1 .. Len(ret.masks) :
                 \E j \in 1 .. Len(rest) : ret.masks[i] = annToMask(rest[j])

\* a sample of an image that has a crowd-flagged record with pixels
C4_Witness ==
    /\ CrowdSampleReturned
    /\ Len(ret.boxes) >= 1
    /\ \E j \in 1 .. Len(RecordsOf(ret.idx)) :
         /\ RecordsOf(ret.idx)[j].iscrowd = 1
         /\ HasPixel(annToMask(RecordsOf(ret.idx)[j]))

(* C5: for an image with no valid annotation (no record, or crowd-flagged  *)
(* records only) CrowdDataset.get returns the image and a target whose     *)
(* five arrays are empty.  np.dstack of no mask raises, so this fails.     *)
C5_EmptyImageReturns ==
    ( /\ kind = "crowd"
      /\ GetItemEnded
      /\ InRange(img_ids, ret.idx)
      /\ NonCrowdRecords(RecordsOf(ret.idx)) = <<>> )
    => /\ ret.err = "none"
       /\ ret.img = PyIndex(img_ids, ret.idx)
       /\ ArrayLengths(ret) = {0}

(* C6: an EdfDataset sample has, with N the number of masks the decomposer *)
(* produced, N labels all 1, N iscrowd flags all 0, and area[i] equal to   *)
(* (y1 - y0) * (x1 - x0) of boxes[i].                                      *)
C6_EdfTarget ==
    EdfSampleReturned =>
        LET N == Len(extract_masks_from_cluster(LabelOfCall(ret.idx)))
        IN  /\ ret.labels = [i \in 1 .. N |-> 1]
            /\ ret.iscrowd = [i \in 1 .. N |-> 0]
            /\ Len(ret.boxes) = N
            /\ Len(ret.area) = N
            /\ \A i \in 1 .. N :
                 ret.area[i] = (ret.boxes[i][4] - ret.boxes[i][2])
                                 * (ret.boxes[i][3] - ret.boxes[i][1])

\* a sample with two instances, one of them wider than high or higher than wide
C6_Witness ==
    /\ EdfSampleReturned
    /\ Len(ret.boxes) >= 2
    /\ \E i \in 1 .. Len(ret.boxes) :
         ret.boxes[i][4] - ret.boxes[i][2] # ret.boxes[i][3] - ret.boxes[i][1]

C8_Decomposer ==
    ( /\ kind = "edf"
      /\ GetItemEnded
      /\ ret.err # "IndexError" ) =>
        LET lab == LabelOfCall(ret.idx)
            ms == extract_masks_from_cluster(lab)
            k == Cardinality({v \in LabelValues : v # 0 /\
                                \E r \in Rows, c \in Cols : lab[r][c] = v})
            on(i) == {<<r, c>> \in Rows \X Cols : ms[i][r][c] # 0}
        IN  /\ Len(ms) = k
            /\ k = 0 => ms = <<>>
            /\ \A i \in 1 .. k :
                 /\ DOMAIN ms[i] = Rows
                 /\ \A r \in Rows : DOMAIN ms[i][r] = Cols
                 /\ on(i) # {}
                 /\ \A p \in on(i) : lab[p[1]][p[2]] # 0
                 /\ \A p, q \in on(i) : lab[p[1]][p[2]] = lab[q[1]][q[2]]
            /\ \A i, j \in 1 .. k :
                 i < j => /\ on(i) \cap on(j) = {}
                          /\ \A p \in on(i), q \in on(j) :
                               lab[p[1]][p[2]] < lab[q[1]][q[2]]
            /\ \A r \in Rows, c \in Cols :
                 lab[r][c] # 0 => \E i \in 1 .. k : <<r, c>> \in on(i)
            /\ ret.err = "none" => ret.masks = ms

\* a sample of a label image with background and two clusters
C8_Witness ==
    /\ EdfSampleReturned
    /\ Len(ret.masks) = 2
    /\ \E r \in Rows, c \in Cols : LabelOfCall(ret.idx)[r][c] = 0

(* C9: check() prints the warning exactly when some image/label pair       *)
(* differs in characters [-9:-4] of its paths or the two lists differ in   *)
(* length.  The loop runs over zip(img_paths, mask_paths), which stops at  *)
(* the shorter list, so lists of different length whose common prefix      *)
(* matches print nothing and this fails.                                   *)
C9_CheckWarns ==
    (pc = "returned" /\ ret.op = "check") =>
        ( out = <<Warning>>
          <=> \/ Len(img_paths) # Len(mask_paths)
              \/ \E k \in 1 .. Min(Len(img_paths), Len(mask_paths)) :
                   PySliceNeg(img_paths[k], TailFrom, TailTo)
                     # PySliceNeg(mask_paths[k], TailFrom, TailTo) )

(* C10: for every index i with 0 <= i < length(), EdfDataset.get(i) finds  *)
(* both its inputs, the i-th sorted image path and the i-th sorted label   *)
(* path, and image_id = i; length() is the number of image files.  With    *)
(* fewer label files than image files mask_paths[i] raises IndexError, so  *)
(* this fails.                                                             *)
C10_EveryIndexBelowLength ==
    /\ ( /\ kind = "edf"
         /\ GetItemEnded
         /\ 0 <= ret.idx /\ ret.idx < Len(img_paths) )
       => /\ ret.err # "IndexError"
          /\ ret.err = "none" =>
               /\ ret.img = img_paths[ret.idx + 1]
               /\ ret.masks = extract_masks_from_cluster(disk[mask_paths[ret.idx + 1]])
               /\ ret.image_id = <<ret.idx>>
    /\ (kind = "edf" /\ pc = "returned" /\ ret.op = "len")
       => ret.value = Len(img_paths)

====
